---- MODULE Spec2Model ----
(***************************************************************************)
(* Model of the image service (services/image-service): the storage        *)
(* orchestrator ImageService (upload / list / get / delete) over an S3     *)
(* bucket and the PostgreSQL table "images".                               *)
(*                                                                         *)
(* Strings are sequences of one-character strings, so that parsing and     *)
(* formatting of UUIDs are computed, not assumed.  A UUID value is the     *)
(* sequence of its 32 hexadecimal digits (each a number in 0..15).         *)
(***************************************************************************)
EXTENDS Integers, Sequences, FiniteSets, Bags, TLC

VARIABLES
    images,      \* rows of table "images" (image_service.py:46-59)
    s3,          \* objects of the bucket: key -> [body, content_type, user_id]
    nextId,      \* number of uuid4 values drawn so far
    now,         \* the database clock (CURRENT_TIMESTAMP)
    calls,       \* the orchestrator calls in progress (a bag of call records)
    last,        \* the call that returned most recently, with its result
    uploadedBy,  \* history: <<image id, raw user id>> of every upload that returned
    deleted      \* history, per image id: delete_image calls that returned True

vars == <<images, s3, nextId, now, calls, last, uploadedBy, deleted>>

(***************************************************************************)
(* Bounds of the model.                                                    *)
(***************************************************************************)
MaxImages == 1      \* uuid4 values that can be drawn (uploads started)
MaxInFlight == 2    \* upload / delete calls that can be in progress at once
MaxRows == 2        \* uploads in the specification of listing (SpecList)
MaxCallers == 6     \* operations in progress at once in the specification of the pool (SpecPool)

(***************************************************************************)
(* Text.                                                                   *)
(***************************************************************************)
HexLower == <<"0","1","2","3","4","5","6","7","8","9","a","b","c","d","e","f">>
HexUpper == <<"0","1","2","3","4","5","6","7","8","9","A","B","C","D","E","F">>

\* Hexadecimal digits and the other characters of the raw identifiers.
Alphabet ==
    HexLower \o SubSeq(HexUpper, 11, 16) \o
    <<"-","{","}",":","m","o","k","u","s","r","i","n","l","g","h","t","/",".","p","j">>

IndexIn(seq, c) == CHOOSE i \in 1..Len(seq) : seq[i] = c

IsIn(seq, c) == \E i \in 1..Len(seq) : seq[i] = c

Code(c) == IndexIn(Alphabet, c)

StartsWith(s, pre) == Len(s) >= Len(pre) /\ SubSeq(s, 1, Len(pre)) = pre

\* str.replace(old, ""): every non-overlapping occurrence, left to right.
RECURSIVE Remove(_, _)
Remove(s, old) ==
    IF s = <<>> THEN <<>>
    ELSE IF StartsWith(s, old) THEN Remove(SubSeq(s, Len(old) + 1, Len(s)), old)
    ELSE <<Head(s)>> \o Remove(Tail(s), old)

\* str.strip(chars): leading and trailing characters of the set removed.
RECURSIVE LStrip(_, _)
LStrip(s, chars) ==
    IF s # <<>> /\ Head(s) \in chars THEN LStrip(Tail(s), chars) ELSE s

RECURSIVE RStrip(_, _)
RStrip(s, chars) ==
    IF s # <<>> /\ s[Len(s)] \in chars THEN RStrip(SubSeq(s, 1, Len(s) - 1), chars) ELSE s

Strip(s, chars) == RStrip(LStrip(s, chars), chars)

(***************************************************************************)
(* uuid.UUID(hex), str(uuid.UUID), uuid.uuid5, uuid.uuid4.                 *)
(***************************************************************************)
ValueError == <<>>

UuidDigits == 32

IsHexChar(c) == IsIn(HexLower, c) \/ IsIn(HexUpper, c)

HexVal(c) == IF IsIn(HexLower, c) THEN IndexIn(HexLower, c) - 1 ELSE IndexIn(HexUpper, c) - 1

\* uuid.UUID(text): "urn:" and "uuid:" removed, braces stripped, hyphens
\* removed; then exactly 32 hexadecimal digits, else ValueError.
UuidHexOf(text) ==
    Remove(Strip(Remove(Remove(text, <<"u","r","n",":">>), <<"u","u","i","d",":">>), {"{", "}"}), <<"-">>)

UuidParse(text) ==
    LET hex == UuidHexOf(text)
    IN  IF Len(hex) # UuidDigits \/ \E i \in 1..Len(hex) : ~IsHexChar(hex[i])
        THEN ValueError
        ELSE [i \in 1..UuidDigits |-> HexVal(hex[i])]

\* str(u): the digits in lower case, grouped 8-4-4-4-12.
UuidStr(u) ==
    LET h == [i \in 1..UuidDigits |-> HexLower[u[i] + 1]]
    IN  SubSeq(h, 1, 8) \o <<"-">> \o SubSeq(h, 9, 12) \o <<"-">> \o SubSeq(h, 13, 16)
            \o <<"-">> \o SubSeq(h, 17, 20) \o <<"-">> \o SubSeq(h, 21, 32)

\* uuid.uuid5(NAMESPACE_DNS, name): a digest of the name with the version
\* digit set to 5 and the variant bits to 10.  The SHA-1 digest is replaced
\* by a position-weighted checksum of the characters; like SHA-1 it is a
\* function of the name alone.
RECURSIVE WeightedSum(_, _, _)
WeightedSum(name, j, i) ==
    IF j > Len(name) THEN 0
    ELSE ((i + j) * Code(name[j]) + WeightedSum(name, j + 1, i)) % 16

Uuid5(name) ==
    [i \in 1..UuidDigits |->
        IF i = 13 THEN 5
        ELSE IF i = 17 THEN 8 + (WeightedSum(name, 1, i) % 4)
        ELSE (WeightedSum(name, 1, i) + Len(name)) % 16]

\* uuid.uuid4(): the n-th value drawn; version digit 4, variant bits 10,
\* and distinct for distinct n (a random 122-bit value does not repeat).
Uuid4(n) ==
    [i \in 1..UuidDigits |->
        IF i = 13 THEN 4
        ELSE IF i = 17 THEN 8
        ELSE IF i = 32 THEN n % 16
        ELSE IF i = 31 THEN (n \div 16) % 16
        ELSE (7 * i) % 16]

(***************************************************************************)
(* Inputs: raw user ids, image id texts, uploaded files.                   *)
(***************************************************************************)
DemoUser == <<"d","e","m","o","-","u","s","e","r">>

\* The id of the mock user of auth_service.py (no UUID text).
MockUser == <<"m","o","c","k","-","u","s","e","r","-","i","d">>

ReservedUuid == [i \in 1..UuidDigits |-> IF i = UuidDigits THEN 1 ELSE 0]

\* Some registered user's UUID, with letters among its digits.
AliceUuid == [i \in 1..UuidDigits |-> (3 * i + 7) % 16]

UpperCase == <<"A","B","C","D","E","F","P","N","G">>
LowerCase == <<"a","b","c","d","e","f","p","n","g">>

ToUpper(s) == [i \in 1..Len(s) |-> IF IsIn(LowerCase, s[i]) THEN UpperCase[IndexIn(LowerCase, s[i])] ELSE s[i]]

\* str.lower()
ToLower(s) == [i \in 1..Len(s) |-> IF IsIn(UpperCase, s[i]) THEN LowerCase[IndexIn(UpperCase, s[i])] ELSE s[i]]

RawUserIds ==
    { DemoUser,
      MockUser,
      UuidStr(ReservedUuid),
      UuidStr(AliceUuid),
      ToUpper(UuidStr(AliceUuid)),
      <<"{">> \o UuidStr(AliceUuid) \o <<"}">>,
      UuidStr(Uuid5(MockUser)) }

\* An image id text that is no UUID.
BadImageId == <<"n","i","l">>

ImageIdTexts == { UuidStr(Uuid4(n)) : n \in 1..MaxImages } \cup { BadImageId }

\* The ids of the uploads of SpecList.
ListImageIdTexts == { UuidStr(Uuid4(n)) : n \in 1..MaxRows }

\* A byte string is a sequence of runs <<byte, count>> (count >= 1), so that
\* a payload of megabytes is a short value; len(content) is the sum of the
\* counts.
RECURSIVE ByteLen(_)
ByteLen(content) == IF content = <<>> THEN 0 ELSE Head(content)[2] + ByteLen(Tail(content))

\* Uploaded files: filename, declared content type, content.
PngFile ==
    [filename |-> <<"a",".","P","N","G">>,
     content_type |-> <<"i","m","a","g","e","/","p","n","g">>,
     content |-> << <<137, 1>>, <<80, 1>> >>]

TextFile ==
    [filename |-> <<"n","o","t","e">>,
     content_type |-> <<"t","e","x","t","/","p","l","a","i","n">>,
     content |-> << <<104, 1>> >>]

Files == { PngFile, TextFile }

(***************************************************************************)
(* The owner key each operation derives from the raw user id.              *)
(***************************************************************************)
\* (a resolver without the branch for the demo user)
UploadUserUuidNoSentinel(user_id) ==
    IF UuidParse(user_id) # ValueError THEN UuidParse(user_id) ELSE Uuid5(user_id)

\* upload_image, lines 89-98
UploadUserUuid(user_id) ==
    IF user_id = DemoUser THEN ReservedUuid
    ELSE IF UuidParse(user_id) # ValueError THEN UuidParse(user_id)
    ELSE Uuid5(user_id)

\* get_user_images, lines 171-178
ListUserUuid(user_id) ==
    IF user_id = DemoUser THEN ReservedUuid
    ELSE IF UuidParse(user_id) # ValueError THEN UuidParse(user_id)
    ELSE Uuid5(user_id)

\* get_image_by_id, line 249: uuid.UUID(user_id), which may raise
GetUserUuid(user_id) == UuidParse(user_id)

\* delete_image, lines 316 and 334: uuid.UUID(user_id), which may raise
DeleteUserUuid(user_id) == UuidParse(user_id)

\* The tables below hold the values of the operators above on the model's
\* inputs (each is computed once).
UploadKeyOf == [u \in RawUserIds |-> UploadUserUuid(u)]
ListKeyOf == [u \in RawUserIds |-> ListUserUuid(u)]
GetKeyOf == [u \in RawUserIds |-> GetUserUuid(u)]
DeleteKeyOf == [u \in RawUserIds |-> DeleteUserUuid(u)]
ImageUuidOf == [t \in ImageIdTexts \cup ListImageIdTexts |-> UuidParse(t)]

(***************************************************************************)
(* Upload: names and keys (upload_image, lines 100-103).                   *)
(***************************************************************************)
\* s.split('.')[-1]
RECURSIVE LastPart(_, _)
LastPart(s, sep) ==
    IF \E i \in 1..Len(s) : s[i] = sep
    THEN LastPart(SubSeq(s, (CHOOSE i \in 1..Len(s) : s[i] = sep) + 1, Len(s)), sep)
    ELSE s

StoredName(image_id, original_filename) ==
    image_id \o <<".">> \o ToLower(LastPart(original_filename, "."))

S3Key(user_uuid, filename) ==
    <<"i","m","a","g","e","s","/">> \o UuidStr(user_uuid) \o <<"/">> \o filename

(***************************************************************************)
(* Records.                                                                *)
(***************************************************************************)
None == [id |-> <<>>, user_id |-> <<>>, size |-> 0, content_type |-> <<>>, created_at |-> 0]

NoFile == [filename |-> <<>>, content_type |-> <<>>, content |-> <<>>]

\* A call in progress: its arguments, where it stands (pc) and its locals.
\* owned0 is an observation: when the call began, the image existed and had
\* been uploaded under the same raw user id.
NoCall ==
    [op |-> "idle", pc |-> "idle", user_id |-> <<>>, image_id |-> <<>>, file |-> NoFile,
     key |-> <<>>, s3err |-> FALSE, owned0 |-> FALSE,
     page |-> 0, limit |-> 0, format_filter |-> <<>>, total_count |-> 0]

NoPagination ==
    [currentPage |-> 0, totalPages |-> 0, totalImages |-> 0,
     hasNextPage |-> FALSE, hasPreviousPage |-> FALSE]

\* last.status: "ok" (a record or page returned), "none" (None returned),
\* "true" / "false" (delete_image), "error" (an exception raised to the caller).
\* The fields beyond the result are observations of the call:
\*   owner_key  the user UUID the call computed (ValueError if that raised)
\*   dberr      the metadata index raised during the call
\*   s3err      the object store raised during the call
\*   owned0     as in the call record
\*   passed     delete_image: the lookup found the row
\*   row1       delete_image: the row was present just before the call's last step
\*   key        the object key the call put or deleted
\*   http       the status code of the response, when a route set it itself
\*   operations process_image: the operation names of the call
NoLast ==
    [op |-> "none", user_id |-> <<>>, image_id |-> <<>>, status |-> "none", view |-> None,
     items |-> <<>>, pagination |-> NoPagination, body |-> <<>>, key |-> <<>>,
     owner_key |-> ValueError,
     dberr |-> FALSE, s3err |-> FALSE, owned0 |-> FALSE, passed |-> FALSE, row1 |-> FALSE,
     http |-> 0, operations |-> <<>>, limit |-> 0, format_filter |-> <<>>,
     nfiles |-> 0, files |-> <<>>]

\* The dict every operation builds from a row (e.g. lines 147-156, 254-263).
View(row, user_id) ==
    [id |-> UuidStr(row.id), user_id |-> user_id, size |-> row.size,
     content_type |-> row.content_type, created_at |-> row.created_at]

Owned(image_id, user_id) ==
    /\ <<image_id, user_id>> \in uploadedBy
    /\ \E r \in images : UuidStr(r.id) = image_id

Started(call) == calls (+) SetToBag({call})

Finished(call) == calls (-) SetToBag({call})

Moved(call, next) == Finished(call) (+) SetToBag({next})

InFlight(op, pc) == { c \in BagToSet(calls) : c.op = op /\ c.pc = pc }

(***************************************************************************)
(* The object store (boto3 client).                                        *)
(***************************************************************************)
\* put_object: the object under Key is created or replaced.
PutObject(bucket, key, body, content_type, user_id) ==
    { o \in bucket : o.key # key }
        \cup { [key |-> key, body |-> body, content_type |-> content_type, user_id |-> user_id] }

\* delete_object: deleting a missing key is no error.
DeleteObjectFrom(bucket, key) == { o \in bucket : o.key # key }

HasObject(bucket, key) == \E o \in bucket : o.key = key

(***************************************************************************)
(* State after construction and startup: pool open, table created, empty.  *)
(***************************************************************************)
Init ==
    /\ images = {}
    /\ s3 = {}
    /\ nextId = 0
    /\ now = 0
    /\ calls = EmptyBag
    /\ last = NoLast
    /\ uploadedBy = {}
    /\ deleted = [t \in ImageIdTexts |-> 0]

(***************************************************************************)
(* upload_image (image_service.py:77-160).                                 *)
(***************************************************************************)
UploadFailed(call) ==
    [NoLast EXCEPT !.op = "upload", !.user_id = call.user_id, !.image_id = call.image_id,
                   !.status = "error", !.body = call.file.content, !.key = call.key,
                   !.owner_key = UploadKeyOf[call.user_id], !.s3err = (call.pc = "put"),
                   !.dberr = (call.pc = "insert")]

\* (a failed insert that rolls the object back)
BucketRolledBack(bucket, key) == { o \in bucket : o.key # key }

\* What the failure of the index insert does to the bucket: nothing (the
\* except clause of lines 158-160 only logs and re-raises).
BucketAfterFailedInsert(bucket, key) == bucket

\* (an upload that goes on to the insert although put_object raised)
UploadPutThenInsertAnyway(file, user_id, put_ok) ==
    /\ BagCardinality(calls) < MaxInFlight
    /\ nextId < MaxImages
    /\ LET image_id == UuidStr(Uuid4(nextId + 1))
           s3_key == S3Key(UploadKeyOf[user_id], StoredName(image_id, file.filename))
           call == [NoCall EXCEPT !.op = "upload", !.pc = "insert", !.user_id = user_id,
                                  !.image_id = image_id, !.file = file, !.key = s3_key]
       IN  /\ nextId' = nextId + 1
           /\ s3' = IF put_ok THEN PutObject(s3, s3_key, file.content, file.content_type, user_id)
                    ELSE s3
           /\ calls' = Started(call)
           /\ UNCHANGED last
    /\ UNCHANGED <<images, now, uploadedBy, deleted>>

\* Lines 84-126: read the file, draw the id, derive the names, put the object.
\* put_ok = FALSE: put_object raises.
UploadPut(file, user_id, put_ok) ==
    /\ BagCardinality(calls) < MaxInFlight
    /\ nextId < MaxImages
    /\ LET image_id == UuidStr(Uuid4(nextId + 1))
           user_uuid == UploadKeyOf[user_id]
           filename == StoredName(image_id, file.filename)
           s3_key == S3Key(user_uuid, filename)
           call == [NoCall EXCEPT !.op = "upload", !.pc = "put", !.user_id = user_id,
                                  !.image_id = image_id, !.file = file, !.key = s3_key]
       IN  /\ nextId' = nextId + 1
           /\ IF put_ok
              THEN /\ s3' = PutObject(s3, s3_key, file.content, file.content_type, user_id)
                   /\ calls' = Started([call EXCEPT !.pc = "insert"])
                   /\ UNCHANGED last
              ELSE /\ last' = UploadFailed(call)
                   /\ UNCHANGED <<s3, calls>>
    /\ UNCHANGED <<images, now, uploadedBy, deleted>>

\* (a row filed under the reserved owner, whoever uploaded)
UploadRowUnderReservedOwner(call, created_at) ==
    [id |-> ImageUuidOf[call.image_id],
     user_id |-> ReservedUuid,
     filename |-> StoredName(call.image_id, call.file.filename),
     original_filename |-> call.file.filename,
     s3_key |-> call.key,
     size |-> ByteLen(call.file.content),
     content_type |-> call.file.content_type,
     created_at |-> created_at]

\* The row of lines 130-142 (size is len(content)).
UploadRow(call, created_at) ==
    [id |-> ImageUuidOf[call.image_id],
     user_id |-> UploadKeyOf[call.user_id],
     filename |-> StoredName(call.image_id, call.file.filename),
     original_filename |-> call.file.filename,
     s3_key |-> call.key,
     size |-> ByteLen(call.file.content),
     content_type |-> call.file.content_type,
     created_at |-> created_at]

\* PRIMARY KEY (id) and UNIQUE (s3_key), lines 47 and 51.
InsertConflicts(row) == \E r \in images : r.id = row.id \/ r.s3_key = row.s3_key

\* Lines 129-156: insert the row and return the record built from it.
\* db_ok = FALSE: acquiring the session or the INSERT raises.
\* tick: whether the database clock advances before the next insert.
UploadInsert(call, db_ok, tick) ==
    /\ call \in InFlight("upload", "insert")
    /\ LET row == UploadRow(call, now)
       IN  IF db_ok /\ ~InsertConflicts(row)
           THEN /\ images' = images \cup {row}
                /\ now' = now + tick
                /\ uploadedBy' = uploadedBy \cup {<<call.image_id, call.user_id>>}
                /\ last' = [NoLast EXCEPT !.op = "upload", !.user_id = call.user_id,
                                          !.image_id = call.image_id, !.status = "ok",
                                          !.view = View(row, call.user_id),
                                          !.body = call.file.content,
                                          !.key = call.key,
                                          !.owner_key = row.user_id]
                /\ UNCHANGED s3
           ELSE /\ last' = UploadFailed(call)
                /\ s3' = BucketAfterFailedInsert(s3, call.key)
                /\ UNCHANGED <<images, now, uploadedBy>>
    /\ calls' = Finished(call)
    /\ UNCHANGED <<nextId, deleted>>

(***************************************************************************)
(* get_image_by_id (235-267) and get_image_by_id_public (269-301).         *)
(***************************************************************************)
\* (a lookup that forgets the owner)
RowsOfAnyOwner(image_uuid, user_uuid) == { r \in images : r.id = image_uuid }

\* The rows of SELECT ... WHERE id = $1 AND user_id = $2.
RowsOf(image_uuid, user_uuid) == { r \in images : r.id = image_uuid /\ r.user_id = user_uuid }

\* What get_image_by_id returns in the current state.  Either uuid.UUID call
\* of line 249 may raise; that and a database error end in "return None".
get_image_by_id(image_id, user_id, db_ok) ==
    IF ImageUuidOf[image_id] = ValueError \/ GetKeyOf[user_id] = ValueError \/ ~db_ok
    THEN None
    ELSE LET rows == RowsOf(ImageUuidOf[image_id], GetKeyOf[user_id])
         IN  IF rows = {} THEN None ELSE View(CHOOSE r \in rows : TRUE, user_id)

get_image_by_id_public(image_id, db_ok) ==
    IF ImageUuidOf[image_id] = ValueError \/ ~db_ok
    THEN None
    ELSE LET rows == { r \in images : r.id = ImageUuidOf[image_id] }
         IN  IF rows = {} THEN None
             ELSE LET r == CHOOSE r \in rows : TRUE IN View(r, UuidStr(r.user_id))

GetImageById(image_id, user_id, db_ok) ==
    /\ LET res == get_image_by_id(image_id, user_id, db_ok)
       IN  last' = [NoLast EXCEPT !.op = "get", !.user_id = user_id, !.image_id = image_id,
                                  !.status = IF res = None THEN "none" ELSE "ok",
                                  !.view = res,
                                  !.owner_key = GetKeyOf[user_id],
                                  !.dberr = ~db_ok,
                                  !.owned0 = Owned(image_id, user_id)]
    /\ UNCHANGED <<images, s3, nextId, now, calls, uploadedBy, deleted>>

GetImageByIdPublic(image_id, db_ok) ==
    /\ LET res == get_image_by_id_public(image_id, db_ok)
       IN  last' = [NoLast EXCEPT !.op = "view", !.image_id = image_id,
                                  !.status = IF res = None THEN "none" ELSE "ok",
                                  !.view = res,
                                  !.dberr = ~db_ok]
    /\ UNCHANGED <<images, s3, nextId, now, calls, uploadedBy, deleted>>

(***************************************************************************)
(* delete_image (image_service.py:303-341).                                *)
(***************************************************************************)
DeleteReturned(call, status, db_ok, row1) ==
    [NoLast EXCEPT !.op = "delete", !.user_id = call.user_id, !.image_id = call.image_id,
                   !.status = status, !.owner_key = DeleteKeyOf[call.user_id], !.key = call.key,
                   !.dberr = ~db_ok, !.s3err = call.s3err, !.owned0 = call.owned0,
                   !.passed = (call.pc # "lookup"), !.row1 = row1]

\* (a lookup that finds the row of any owner)
DeleteLookupAnyOwner(image_id, user_id, db_ok) ==
    /\ BagCardinality(calls) < MaxInFlight
    /\ LET call == [NoCall EXCEPT !.op = "delete", !.pc = "lookup", !.user_id = user_id,
                                  !.image_id = image_id, !.owned0 = Owned(image_id, user_id)]
           raised == ImageUuidOf[image_id] = ValueError \/ DeleteKeyOf[user_id] = ValueError
           rows == IF raised THEN {} ELSE { r \in images : r.id = ImageUuidOf[image_id] }
       IN  IF raised \/ ~db_ok \/ rows = {}
           THEN /\ last' = DeleteReturned(call, "false", db_ok, FALSE)
                /\ UNCHANGED calls
           ELSE /\ calls' = Started([call EXCEPT !.pc = "s3",
                                                 !.key = (CHOOSE r \in rows : TRUE).s3_key])
                /\ UNCHANGED last
    /\ UNCHANGED <<images, s3, nextId, now, uploadedBy, deleted>>

\* Lines 309-320: the lookup.  A uuid.UUID call that raises, an index error
\* and a missing row all end in "return False".
DeleteLookup(image_id, user_id, db_ok) ==
    /\ BagCardinality(calls) < MaxInFlight
    /\ LET call == [NoCall EXCEPT !.op = "delete", !.pc = "lookup", !.user_id = user_id,
                                  !.image_id = image_id, !.owned0 = Owned(image_id, user_id)]
           raised == ImageUuidOf[image_id] = ValueError \/ DeleteKeyOf[user_id] = ValueError
           rows == IF raised THEN {} ELSE RowsOf(ImageUuidOf[image_id], DeleteKeyOf[user_id])
       IN  IF raised \/ ~db_ok \/ rows = {}
           THEN /\ last' = DeleteReturned(call, "false", db_ok, FALSE)
                /\ UNCHANGED calls
           ELSE /\ calls' = Started([call EXCEPT !.pc = "s3",
                                                 !.key = (CHOOSE r \in rows : TRUE).s3_key])
                /\ UNCHANGED last
    /\ UNCHANGED <<images, s3, nextId, now, uploadedBy, deleted>>

\* (a delete that gives up when delete_object raises)
DeleteObjectAborting(call, s3_ok) ==
    /\ call \in InFlight("delete", "s3")
    /\ IF s3_ok
       THEN /\ s3' = DeleteObjectFrom(s3, call.key)
            /\ calls' = Moved(call, [call EXCEPT !.pc = "row"])
            /\ UNCHANGED last
       ELSE /\ last' = DeleteReturned([call EXCEPT !.s3err = TRUE], "false", TRUE,
                            RowsOf(ImageUuidOf[call.image_id], DeleteKeyOf[call.user_id]) # {})
            /\ calls' = Finished(call)
            /\ UNCHANGED s3
    /\ UNCHANGED <<images, nextId, now, uploadedBy, deleted>>

\* Lines 322-329: delete the object; an error is logged and the call goes on.
\* s3_ok = FALSE: delete_object raises.
DeleteObject(call, s3_ok) ==
    /\ call \in InFlight("delete", "s3")
    /\ s3' = IF s3_ok THEN DeleteObjectFrom(s3, call.key) ELSE s3
    /\ calls' = Moved(call, [call EXCEPT !.pc = "row", !.s3err = ~s3_ok])
    /\ UNCHANGED <<images, nextId, now, last, uploadedBy, deleted>>

\* (a delete that reports success whatever the DELETE removed)
DeleteStatusAlwaysTrue(n) == "true"

\* Line 337: deleted_rows == "DELETE 1", for the status "DELETE <n>".
DeleteStatus(n) == IF n = 1 THEN "true" ELSE "false"

\* Lines 331-341: delete the row and report.  db_ok = FALSE: execute raises.
DeleteRow(call, db_ok) ==
    /\ call \in InFlight("delete", "row")
    /\ LET rows == RowsOf(ImageUuidOf[call.image_id], DeleteKeyOf[call.user_id])
           status == IF db_ok THEN DeleteStatus(Cardinality(rows)) ELSE "false"
       IN  /\ images' = IF db_ok THEN images \ rows ELSE images
           /\ last' = DeleteReturned(call, status, db_ok, rows # {})
           /\ deleted' = IF status = "true" /\ deleted[call.image_id] < 2
                         THEN [deleted EXCEPT ![call.image_id] = @ + 1]
                         ELSE deleted
    /\ calls' = Finished(call)
    /\ UNCHANGED <<s3, nextId, now, uploadedBy>>

(***************************************************************************)
(* get_user_images (image_service.py:162-233).                             *)
(***************************************************************************)
\* content_type ILIKE '%f%'
ContainsCI(text, f) ==
    \E i \in 0..(Len(text) - Len(f)) : ToLower(SubSeq(text, i + 1, i + Len(f))) = ToLower(f)

\* The rows of the WHERE clause of lines 181-186.
Matching(user_uuid, format_filter) ==
    { r \in images : /\ r.user_id = user_uuid
                     /\ (format_filter # <<>> => ContainsCI(r.content_type, format_filter)) }

\* ORDER BY created_at DESC: every order of the rows that is descending in
\* created_at (rows of one timestamp come in any order).
\* A variant that sorts oldest first.
OrdersOldestFirst(rows) ==
    { o \in [1..Cardinality(rows) -> rows] :
        /\ \A i, j \in 1..Cardinality(rows) : i # j => o[i] # o[j]
        /\ \A i, j \in 1..Cardinality(rows) : i < j => o[i].created_at <= o[j].created_at }

Orders(rows) ==
    { o \in [1..Cardinality(rows) -> rows] :
        /\ \A i, j \in 1..Cardinality(rows) : i # j => o[i] # o[j]
        /\ \A i, j \in 1..Cardinality(rows) : i < j => o[i].created_at >= o[j].created_at }

Min(a, b) == IF a < b THEN a ELSE b

Max(a, b) == IF a > b THEN a ELSE b

\* A variant that skips one page too many.
OffsetFromPage(page, limit) == page * limit

\* offset = (page - 1) * limit (line 169)
Offset(page, limit) == (page - 1) * limit

GetUserImages(user_id, page, limit, format_filter, db_ok) ==
    /\ LET offset == Offset(page, limit)
           user_uuid == ListKeyOf[user_id]
           rows == Matching(user_uuid, format_filter)
           total_count == Cardinality(rows)
           called == [NoLast EXCEPT !.op = "list", !.user_id = user_id, !.owner_key = user_uuid,
                                    !.limit = limit, !.format_filter = format_filter,
                                    !.dberr = ~db_ok]
       IN  IF db_ok
           THEN \E o \in Orders(rows) :
                  last' = [called EXCEPT
                      !.status = "ok",
                      !.items = [i \in 1..(Min(offset + limit, total_count) - Min(offset, total_count))
                                    |-> View(o[offset + i], user_id)],
                      !.pagination = [currentPage |-> page,
                                      totalPages |-> (total_count + limit - 1) \div limit,
                                      totalImages |-> total_count,
                                      hasNextPage |-> (page * limit) < total_count,
                                      hasPreviousPage |-> page > 1]]
           ELSE last' = [called EXCEPT !.status = "error"]
    /\ UNCHANGED <<images, s3, nextId, now, calls, uploadedBy, deleted>>

\* get_user_images in its two statements, for callers that overlap with
\* other calls.  Lines 188-191: the session is acquired and SELECT COUNT(*)
\* is answered.
GetUserImagesCount(user_id, page, limit, format_filter) ==
    /\ BagCardinality(calls) < MaxInFlight
    /\ calls' = Started([NoCall EXCEPT
                   !.op = "list", !.pc = "fetch", !.user_id = user_id, !.page = page,
                   !.limit = limit, !.format_filter = format_filter,
                   !.total_count = Cardinality(Matching(ListKeyOf[user_id], format_filter))])
    /\ UNCHANGED <<images, s3, nextId, now, last, uploadedBy, deleted>>

\* Lines 193-230: the page is selected, in a statement of its own outside
\* any transaction, and the envelope is built from the count read before.
GetUserImagesFetch(call) ==
    /\ call \in InFlight("list", "fetch")
    /\ LET offset == Offset(call.page, call.limit)
           rows == Matching(ListKeyOf[call.user_id], call.format_filter)
           n == Cardinality(rows)
       IN  \E o \in Orders(rows) :
             last' = [NoLast EXCEPT
                 !.op = "list", !.user_id = call.user_id,
                 !.owner_key = ListKeyOf[call.user_id],
                 !.limit = call.limit, !.format_filter = call.format_filter,
                 !.status = "ok",
                 !.items = [i \in 1..(Min(offset + call.limit, n) - Min(offset, n))
                               |-> View(o[offset + i], call.user_id)],
                 !.pagination = [currentPage |-> call.page,
                                 totalPages |-> (call.total_count + call.limit - 1) \div call.limit,
                                 totalImages |-> call.total_count,
                                 hasNextPage |-> (call.page * call.limit) < call.total_count,
                                 hasPreviousPage |-> call.page > 1]]
    /\ calls' = Finished(call)
    /\ UNCHANGED <<images, s3, nextId, now, uploadedBy, deleted>>

(***************************************************************************)
(* Spec: the store under concurrent uploads and deletes with failing       *)
(* dependencies.  Two registered users; calls overlap freely.              *)
(***************************************************************************)
StoreUsers == { UuidStr(AliceUuid), UuidStr(ReservedUuid) }

Next ==
    \/ \E user_id \in StoreUsers, put_ok \in BOOLEAN : UploadPut(PngFile, user_id, put_ok)
    \/ \E call \in BagToSet(calls), db_ok \in BOOLEAN : UploadInsert(call, db_ok, 1)
    \/ \E image_id \in ImageIdTexts, user_id \in StoreUsers, db_ok \in BOOLEAN :
            DeleteLookup(image_id, user_id, db_ok)
    \/ \E call \in BagToSet(calls), s3_ok \in BOOLEAN : DeleteObject(call, s3_ok)
    \/ \E call \in BagToSet(calls), db_ok \in BOOLEAN : DeleteRow(call, db_ok)

Spec == Init /\ [][Next]_vars

(***************************************************************************)
(* SpecApi: one caller at a time, every kind of raw user id, every         *)
(* operation of the orchestrator, no failing dependency.                   *)
(***************************************************************************)
ApiUsers == { DemoUser, MockUser, UuidStr(AliceUuid), <<"{">> \o UuidStr(AliceUuid) \o <<"}">> }

Pages == {1, 2}
FormatFilters == { <<>>, <<"P","N","G">> }

NextApi ==
    \/ /\ calls = EmptyBag
       /\ \E file \in Files, user_id \in ApiUsers : UploadPut(file, user_id, TRUE)
    \/ \E call \in BagToSet(calls) : UploadInsert(call, TRUE, 1)
    \/ /\ calls = EmptyBag
       /\ \E image_id \in ImageIdTexts, user_id \in ApiUsers : GetImageById(image_id, user_id, TRUE)
    \/ /\ calls = EmptyBag
       /\ \E image_id \in ImageIdTexts : GetImageByIdPublic(image_id, TRUE)
    \/ /\ calls = EmptyBag
       /\ \E user_id \in ApiUsers, page \in Pages, limit \in {1, 10}, format_filter \in FormatFilters :
            GetUserImages(user_id, page, limit, format_filter, TRUE)
    \/ /\ calls = EmptyBag
       /\ \E image_id \in ImageIdTexts, user_id \in ApiUsers : DeleteLookup(image_id, user_id, TRUE)
    \/ \E call \in BagToSet(calls) : DeleteObject(call, TRUE)
    \/ \E call \in BagToSet(calls) : DeleteRow(call, TRUE)

SpecApi == Init /\ [][NextApi]_vars

(***************************************************************************)
(* The caller's identity: AuthService.verify_token (auth_service.py:9-38),  *)
(* get_current_user (app.py:140-149) and the header check of the upload     *)
(* route (app.py:254-266).                                                  *)
(***************************************************************************)
Bearer == <<"B","e","a","r","e","r"," ">>

GoodToken == <<"g","o","o","d">>
BadToken == <<"b","a","d">>

\* Authorization headers: absent, another scheme, a token the auth service
\* knows, a token it does not know.
NoHeader == <<>>
Headers == { NoHeader, <<"B","a","s","i","c"," ">> \o GoodToken, Bearer \o GoodToken, Bearer \o BadToken }

\* s.split(" ")[1] for a text with at least one space.
RECURSIVE UpTo(_, _)
UpTo(s, sep) == IF s = <<>> \/ Head(s) = sep THEN <<>> ELSE <<Head(s)>> \o UpTo(Tail(s), sep)

SplitSecond(s) == UpTo(SubSeq(s, Len(UpTo(s, " ")) + 2, Len(s)), " ")

\* The auth service as one request finds it (auth): it answers 200 with its
\* verdict ("up"), answers another status ("failing"), or the request raises
\* (unreachable, timeout: "down").  environment is ENVIRONMENT
\* (auth_service.py:29), "production" by default.
MockEnvironments ==
    { <<"d","e","v","e","l","o","p","m","e","n","t">>, <<"p","o","c">>, <<"d","e","m","o">> }

\* None, as a user
NoUser == [id |-> <<>>]

\* What the auth service answers for a token when it answers 200:
\* result.get("user") if result.get("valid") else None.
VerifiedUser(token) == IF token = GoodToken THEN [id |-> UuidStr(AliceUuid)] ELSE NoUser

verify_token(token, auth, environment) ==
    IF auth = "up" THEN VerifiedUser(token)
    ELSE IF auth = "failing" THEN NoUser
    ELSE IF ToLower(environment) \in MockEnvironments THEN [id |-> MockUser]
    ELSE NoUser

\* HTTPBearer and get_current_user: the status of the refusal (0: none) and
\* the user.  A missing header or another scheme is refused with 403 by
\* HTTPBearer; a token verify_token does not accept with 401.
get_current_user(authorization, auth, environment) ==
    IF ~StartsWith(authorization, Bearer) THEN [http |-> 403, user |-> NoUser]
    ELSE LET user == verify_token(SplitSecond(authorization), auth, environment)
         IN  IF user = NoUser THEN [http |-> 401, user |-> NoUser]
             ELSE [http |-> 0, user |-> user]

\* The same for the upload route (app.py:254-266): 401 in both cases.
UploadCaller(authorization, auth, environment) ==
    IF authorization = NoHeader \/ ~StartsWith(authorization, Bearer)
    THEN [http |-> 401, user |-> NoUser]
    ELSE LET user == verify_token(SplitSecond(authorization), auth, environment)
         IN  IF user = NoUser THEN [http |-> 401, user |-> NoUser]
             ELSE [http |-> 0, user |-> user]

\* The auth service verified the token of the request.
Verified(authorization, auth) ==
    /\ StartsWith(authorization, Bearer)
    /\ auth = "up"
    /\ VerifiedUser(SplitSecond(authorization)) # NoUser

Refused(op, image_id, http) ==
    [NoLast EXCEPT !.op = op, !.image_id = image_id, !.status = "refused", !.http = http]

(***************************************************************************)
(* process_image: the route (app.py:412-443) and the method                *)
(* (image_service.py:343-358).                                             *)
(***************************************************************************)
\* The attributes __init__ gives an ImageService (image_service.py:15-21).
ImageServiceAttributes == { "settings", "s3_client", "db_pool" }

\* The bodies pydantic accepts for ImageProcessRequest (models.py:17-19):
\* objects with the fields operation and parameters.
Resize == <<"r","e","s","i","z","e">>
Rotate == <<"r","o","t","a","t","e">>
Unknown == <<"f","l","i","p">>

ProcessRequests == { [operation |-> o, parameters |-> <<>>] : o \in { Resize, Unknown } }

\* Operation lists for a direct call of the method.
OperationLists == { <<Resize>>, <<Unknown>>, <<Resize, Unknown>>, <<Unknown, Rotate>>, <<Resize, Rotate>> }

ProcessRaised(image_id, user_id, operations, http) ==
    [NoLast EXCEPT !.op = "process", !.image_id = image_id, !.user_id = user_id,
                   !.status = "error", !.http = http, !.operations = operations,
                   !.owned0 = Owned(image_id, user_id)]

\* (a process_image that copies the row under a fresh id, whatever the
\* operations are)
ProcessImageCopying(image_id, user_id, operations) ==
    /\ nextId <= MaxImages
    /\ LET rows == { r \in images : UuidStr(r.id) = image_id /\ <<image_id, user_id>> \in uploadedBy }
       IN  IF rows = {}
           THEN /\ last' = [ProcessRaised(image_id, user_id, operations, 0) EXCEPT !.status = "none"]
                /\ UNCHANGED <<images, nextId>>
           ELSE LET row == [(CHOOSE r \in rows : TRUE) EXCEPT !.id = Uuid4(nextId + 1)]
                IN  /\ images' = images \cup {row}
                    /\ nextId' = nextId + 1
                    /\ last' = [ProcessRaised(image_id, user_id, operations, 0) EXCEPT
                                    !.status = "ok", !.view = View(row, user_id)]
    /\ UNCHANGED <<s3, now, calls, uploadedBy, deleted>>

\* The method, called directly.  Line 345 reads self.mock_storage, an
\* attribute no ImageService has: AttributeError, before anything else.
ProcessImage(image_id, user_id, operations) ==
    /\ "mock_storage" \notin ImageServiceAttributes
    /\ last' = ProcessRaised(image_id, user_id, operations, 0)
    /\ UNCHANGED <<images, s3, nextId, now, calls, uploadedBy, deleted>>

\* The route.  Line 424 reads request.operations, a field no
\* ImageProcessRequest has: AttributeError, caught at line 440, 500.
ProcessRoute(authorization, auth, environment, image_id, request) ==
    /\ LET caller == get_current_user(authorization, auth, environment)
       IN  IF caller.http # 0
           THEN last' = Refused("process", image_id, caller.http)
           ELSE IF "operations" \notin DOMAIN request
           THEN last' = ProcessRaised(image_id, caller.user.id, <<request.operation>>, 500)
           ELSE \* the method is called and raises (line 345): 500 as well
                last' = ProcessRaised(image_id, caller.user.id, <<request.operation>>, 500)
    /\ UNCHANGED <<images, s3, nextId, now, calls, uploadedBy, deleted>>

(***************************************************************************)
(* The upload route (app.py:245-315).                                      *)
(***************************************************************************)
MaxUploadFiles == 5

MaxUploadBytes == 10 * 1024 * 1024

ImagePrefix == <<"i","m","a","g","e","/">>

\* An image of exactly 10 MiB, and one a byte larger.
ExactFile == [PngFile EXCEPT !.content = << <<137, 1>>, <<0, MaxUploadBytes - 1>> >>]
BigFile == [PngFile EXCEPT !.content = << <<137, 1>>, <<0, MaxUploadBytes>> >>]

\* The bucket, the table and the two generators, as one value.
StoreNow ==
    [images |-> images, s3 |-> s3, nextId |-> nextId, now |-> now, uploadedBy |-> uploadedBy]

\* upload_image (image_service.py:77-160) as one step on a store value:
\* the new store, whether the call returned, and the record it returned.
upload_image(st, file, user_id, put_ok, db_ok) ==
    LET image_id == UuidStr(Uuid4(st.nextId + 1))
        s3_key == S3Key(UploadKeyOf[user_id], StoredName(image_id, file.filename))
        call == [NoCall EXCEPT !.op = "upload", !.pc = "insert", !.user_id = user_id,
                               !.image_id = image_id, !.file = file, !.key = s3_key]
        drawn == [st EXCEPT !.nextId = @ + 1]
    IN  IF ~put_ok
        THEN [st |-> drawn, ok |-> FALSE, view |-> None]
        ELSE LET put == [drawn EXCEPT !.s3 = PutObject(@, s3_key, file.content, file.content_type, user_id)]
                 row == UploadRow(call, st.now)
             IN  IF db_ok /\ ~(\E r \in st.images : r.id = row.id \/ r.s3_key = row.s3_key)
                 THEN [st |-> [put EXCEPT !.images = @ \cup {row},
                                          !.now = @ + 1,
                                          !.uploadedBy = @ \cup {<<image_id, user_id>>}],
                       ok |-> TRUE, view |-> View(row, user_id)]
                 ELSE [st |-> [put EXCEPT !.s3 = BucketAfterFailedInsert(@, s3_key)],
                       ok |-> FALSE, view |-> None]

\* (a route that does not look at the declared content type)
FileRefusalSizeOnly(file) == IF ByteLen(file.content) > MaxUploadBytes THEN 413 ELSE 0

\* Lines 276-288: the status with which the route refuses a file (0: none).
FileRefusal(file) ==
    IF ~StartsWith(file.content_type, ImagePrefix) THEN 400
    ELSE IF ByteLen(file.content) > MaxUploadBytes THEN 413
    ELSE 0

\* (a loop that leaves out a refused or failed file and goes on)
RECURSIVE UploadLoopSkipping(_, _, _, _, _, _, _)
UploadLoopSkipping(files, i, st, uploaded_images, user_id, put_ok, db_ok) ==
    IF i > Len(files) THEN [st |-> st, http |-> 200, images |-> uploaded_images]
    ELSE IF FileRefusal(files[i]) # 0
    THEN UploadLoopSkipping(files, i + 1, st, uploaded_images, user_id, put_ok, db_ok)
    ELSE LET r == upload_image(st, files[i], user_id, put_ok, db_ok)
         IN  UploadLoopSkipping(files, i + 1, r.st,
                                IF r.ok THEN Append(uploaded_images, r.view) ELSE uploaded_images,
                                user_id, put_ok, db_ok)

\* The loop of lines 273-310 from file i on: the store, the status of the
\* response and the records collected.
RECURSIVE UploadLoop(_, _, _, _, _, _, _)
UploadLoop(files, i, st, uploaded_images, user_id, put_ok, db_ok) ==
    IF i > Len(files) THEN [st |-> st, http |-> 200, images |-> uploaded_images]
    ELSE IF FileRefusal(files[i]) # 0
    THEN [st |-> st, http |-> FileRefusal(files[i]), images |-> uploaded_images]
    ELSE LET r == upload_image(st, files[i], user_id, put_ok, db_ok)
         IN  IF ~r.ok THEN [st |-> r.st, http |-> 500, images |-> uploaded_images]
             ELSE UploadLoop(files, i + 1, r.st, Append(uploaded_images, r.view),
                             user_id, put_ok, db_ok)

\* The uuid4 values the loop draws.
RECURSIVE Draws(_, _, _)
Draws(files, i, all_ok) ==
    IF i > Len(files) \/ FileRefusal(files[i]) # 0 THEN 0
    ELSE IF ~all_ok THEN 1
    ELSE 1 + Draws(files, i + 1, all_ok)

\* Line 268
TooManyFiles(files) == Len(files) > MaxUploadFiles

UploadRoute(authorization, files, auth, environment, put_ok, db_ok) ==
    LET caller == UploadCaller(authorization, auth, environment)
        called == [NoLast EXCEPT !.op = "upload_images", !.user_id = caller.user.id,
                                 !.nfiles = Len(files), !.files = files]
    IN  IF caller.http # 0
        THEN /\ last' = [called EXCEPT !.status = "refused", !.http = caller.http]
             /\ UNCHANGED <<images, s3, nextId, now, calls, uploadedBy, deleted>>
        ELSE IF TooManyFiles(files)
        THEN /\ last' = [called EXCEPT !.status = "refused", !.http = 400]
             /\ UNCHANGED <<images, s3, nextId, now, calls, uploadedBy, deleted>>
        ELSE /\ nextId + Draws(files, 1, put_ok /\ db_ok) <= MaxImages
             /\ LET res == UploadLoop(files, 1, StoreNow, <<>>, caller.user.id, put_ok, db_ok)
                IN  /\ images' = res.st.images
                    /\ s3' = res.st.s3
                    /\ nextId' = res.st.nextId
                    /\ now' = res.st.now
                    /\ uploadedBy' = res.st.uploadedBy
                    /\ last' = [called EXCEPT !.status = IF res.http = 200 THEN "ok" ELSE "error",
                                              !.http = res.http,
                                              !.items = res.images,
                                              !.dberr = (res.http = 500 /\ put_ok),
                                              !.s3err = (res.http = 500 /\ ~put_ok)]
             /\ UNCHANGED <<calls, deleted>>

(***************************************************************************)
(* The routes over get_image_by_id and delete_image (app.py:352-410).      *)
(***************************************************************************)
GetRoute(authorization, auth, environment, image_id, db_ok) ==
    LET caller == get_current_user(authorization, auth, environment)
    IN  IF caller.http # 0
        THEN /\ last' = Refused("get", image_id, caller.http)
             /\ UNCHANGED <<images, s3, nextId, now, calls, uploadedBy, deleted>>
        ELSE GetImageById(image_id, caller.user.id, db_ok)

DeleteRoute(authorization, auth, environment, image_id, db_ok) ==
    LET caller == get_current_user(authorization, auth, environment)
    IN  IF caller.http # 0
        THEN /\ last' = Refused("delete", image_id, caller.http)
             /\ UNCHANGED <<images, s3, nextId, now, calls, uploadedBy, deleted>>
        ELSE DeleteLookup(image_id, caller.user.id, db_ok)

\* The status of the response for what the method returned: None and False
\* become 404 (lines 360-361, 376-377, 399-400).
HttpStatus(l) ==
    IF l.http # 0 THEN l.http
    ELSE IF l.op \in {"get", "view", "delete"}
         THEN IF l.status \in {"none", "false"} THEN 404 ELSE 200
         ELSE 0

(***************************************************************************)
(* SpecHttp: requests to the routes, one at a time, with any Authorization *)
(* header, the auth service in any condition, and failing dependencies;    *)
(* and process_image called directly.                                      *)
(***************************************************************************)

\* The caller of a request: the Authorization header, the condition of the
\* auth service and the environment.
Callers ==
    { <<h, "up", <<"p","r","o","d","u","c","t","i","o","n">>>> : h \in Headers } \cup
    { <<Bearer \o GoodToken, a, e>> : a \in {"failing", "down"},
          e \in { <<"p","r","o","d","u","c","t","i","o","n">>, <<"p","o","c">> } } \cup
    { <<Bearer \o BadToken, "down", <<"p","o","c">>>>, <<NoHeader, "down", <<"p","o","c">>>> }

\* Files of the requests; the images among them are of exactly 10 MiB.
HttpFileLists ==
    { <<ExactFile>>, <<TextFile>>, <<BigFile>>, <<ExactFile, TextFile>>, <<ExactFile, ExactFile>>,
      <<TextFile, ExactFile>>,
      [i \in 1..(MaxUploadFiles + 1) |-> IF i = 1 THEN ExactFile ELSE TextFile] }

NextHttp ==
    \/ /\ calls = EmptyBag
       /\ \E c \in Callers, files \in HttpFileLists, db_ok \in BOOLEAN :
            UploadRoute(c[1], files, c[2], c[3], TRUE, db_ok)
    \/ /\ calls = EmptyBag
       /\ \E c \in Callers, image_id \in ImageIdTexts, db_ok \in BOOLEAN :
            GetRoute(c[1], c[2], c[3], image_id, db_ok)
    \/ /\ calls = EmptyBag
       /\ \E image_id \in ImageIdTexts, db_ok \in BOOLEAN : GetImageByIdPublic(image_id, db_ok)
    \/ /\ calls = EmptyBag
       /\ \E c \in Callers, image_id \in ImageIdTexts, db_ok \in BOOLEAN :
            DeleteRoute(c[1], c[2], c[3], image_id, db_ok)
    \/ \E call \in BagToSet(calls) : DeleteObject(call, TRUE)
    \/ \E call \in BagToSet(calls), db_ok \in BOOLEAN : DeleteRow(call, db_ok)
    \/ /\ calls = EmptyBag
       /\ \E c \in Callers, image_id \in ImageIdTexts, request \in ProcessRequests :
            ProcessRoute(c[1], c[2], c[3], image_id, request)
    \/ /\ calls = EmptyBag
       /\ \E image_id \in ImageIdTexts, user_id \in {UuidStr(AliceUuid), MockUser}, operations \in OperationLists :
            ProcessImage(image_id, user_id, operations)

SpecHttp == Init /\ [][NextHttp]_vars

(***************************************************************************)
(* SpecList: uploads, deletes and listings of two owners, one call at a    *)
(* time and without failures; the database clock advances between two      *)
(* inserts.                                                                 *)
(***************************************************************************)
InitList ==
    /\ images = {}
    /\ s3 = {}
    /\ nextId = 0
    /\ now = 0
    /\ calls = EmptyBag
    /\ last = NoLast
    /\ uploadedBy = {}
    /\ deleted = [t \in ImageIdTexts \cup ListImageIdTexts |-> 0]

\* upload_image, from call to return.
ListUpload(file, user_id) ==
    /\ nextId < MaxRows
    /\ LET r == upload_image(StoreNow, file, user_id, TRUE, TRUE)
       IN  /\ images' = r.st.images
           /\ s3' = r.st.s3
           /\ nextId' = r.st.nextId
           /\ now' = r.st.now
           /\ uploadedBy' = r.st.uploadedBy
           /\ last' = [NoLast EXCEPT !.op = "upload", !.user_id = user_id,
                                     !.image_id = r.view.id,
                                     !.status = IF r.ok THEN "ok" ELSE "error",
                                     !.view = r.view,
                                     !.body = file.content,
                                     !.owner_key = UploadKeyOf[user_id]]
    /\ UNCHANGED <<calls, deleted>>

NextList ==
    \/ /\ calls = EmptyBag
       /\ \E file \in Files, user_id \in StoreUsers : ListUpload(file, user_id)
    \/ /\ calls = EmptyBag
       /\ \E image_id \in ListImageIdTexts, user_id \in StoreUsers : DeleteLookup(image_id, user_id, TRUE)
    \/ \E call \in BagToSet(calls) : DeleteObject(call, TRUE)
    \/ \E call \in BagToSet(calls) : DeleteRow(call, TRUE)
    \/ /\ calls = EmptyBag
       /\ \E user_id \in StoreUsers, page \in {1, 2, 3}, limit \in {1, 2},
             format_filter \in FormatFilters :
            GetUserImages(user_id, page, limit, format_filter, TRUE)

SpecList == InitList /\ [][NextList]_vars

(***************************************************************************)
(* SpecRows: every operation of the orchestrator (upload, list, get,       *)
(* delete, process) called by two owners, one call at a time, the table    *)
(* failing at will.                                                        *)
(***************************************************************************)
NextRows ==
    \/ /\ calls = EmptyBag
       /\ \E user_id \in StoreUsers : ListUpload(PngFile, user_id)
    \/ /\ calls = EmptyBag
       /\ \E image_id \in ListImageIdTexts, user_id \in StoreUsers, db_ok \in BOOLEAN :
            DeleteLookup(image_id, user_id, db_ok)
    \/ \E call \in BagToSet(calls) : DeleteObject(call, TRUE)
    \/ \E call \in BagToSet(calls), db_ok \in BOOLEAN : DeleteRow(call, db_ok)
    \/ /\ calls = EmptyBag
       /\ \E user_id \in StoreUsers : GetUserImages(user_id, 1, MaxRows, <<>>, TRUE)
    \/ /\ calls = EmptyBag
       /\ \E image_id \in ListImageIdTexts, user_id \in StoreUsers :
            GetImageById(image_id, user_id, TRUE)
    \/ /\ calls = EmptyBag
       /\ \E image_id \in ListImageIdTexts, user_id \in StoreUsers :
            ProcessImage(image_id, user_id, <<Resize>>)

SpecRows == InitList /\ [][NextRows]_vars

(***************************************************************************)
(* ImageProcessor (utils/image_processor.py).  A byte string is described  *)
(* by its length and by the image PIL decodes from it: size, format and    *)
(* mode; NoImage when Image.open or verify raises.                         *)
(***************************************************************************)
MaxSize == 10 * 1024 * 1024
MaxDimension == 4096

NoImage == [size |-> <<0, 0>>, format |-> "none", mode |-> "none"]

FileSizes == { 1, MaxSize, MaxSize + 1 }
Dimensions == { 1, 2, 3, 7, MaxDimension, MaxDimension + 1 }

Payloads ==
    { [file_size |-> n, image |-> [size |-> <<W, H>>, format |-> fm[1], mode |-> fm[2]]] :
          n \in FileSizes, W \in Dimensions, H \in Dimensions, fm \in { <<"PNG", "RGB">>, <<"PNG", "RGBA">>, <<"JPEG", "RGB">> } } \cup
    { [file_size |-> n, image |-> NoImage] : n \in FileSizes }

\* validate_image (lines 26-83): the dict it returns; error is the part of
\* the message before the colon.
validate_image(image_data) ==
    IF image_data.image = NoImage
    THEN [valid |-> FALSE, error |-> "Invalid image format", metadata |-> NoImage]
    ELSE IF image_data.file_size > MaxSize
    THEN [valid |-> FALSE, error |-> "File size too large", metadata |-> NoImage]
    ELSE IF image_data.image.size[1] > MaxDimension \/ image_data.image.size[2] > MaxDimension
    THEN [valid |-> FALSE, error |-> "Image dimensions too large", metadata |-> NoImage]
    ELSE [valid |-> TRUE, error |-> "", metadata |-> image_data.image]

Abs(a) == IF a < 0 THEN 0 - a ELSE a

\* Image.thumbnail, x = round_aspect(y * aspect, key = abs(aspect - n / y)):
\* of floor and ceil of y * W / H the one whose n / y is nearer to W / H
\* (floor on a tie), at least 1.
RoundWidth(W, H, y) ==
    LET lo == (y * W) \div H
        hi == IF (y * W) % H = 0 THEN lo ELSE lo + 1
        best == IF Abs(W * y - hi * H) < Abs(W * y - lo * H) THEN hi ELSE lo
    IN  Max(best, 1)

\* y = round_aspect(x / aspect, key = 0 if n == 0 else abs(aspect - x / n)):
\* of floor and ceil of x * H / W the one whose x / n is nearer to W / H, the
\* fractions compared by cross multiplication; at least 1.
RoundHeight(W, H, x) ==
    LET lo == (x * H) \div W
        hi == IF (x * H) % W = 0 THEN lo ELSE lo + 1
        best == IF lo = 0 THEN lo
                ELSE IF Abs(W * hi - x * H) * lo < Abs(W * lo - x * H) * hi THEN hi ELSE lo
    IN  Max(best, 1)

\* (a thumbnail that scales to the box whatever the size of the image)
PreserveAspectRatioUpscaling(size, x, y) ==
    IF x * size[2] >= size[1] * y
    THEN <<RoundWidth(size[1], size[2], y), y>>
    ELSE <<x, RoundHeight(size[1], size[2], x)>>

\* preserve_aspect_ratio of Image.thumbnail (line 102) for an image of the
\* given size and the box (x, y): the size of the thumbnail.
PreserveAspectRatio(size, x, y) ==
    IF x >= size[1] /\ y >= size[2] THEN size
    ELSE IF x * size[2] >= size[1] * y
    THEN <<RoundWidth(size[1], size[2], y), y>>
    ELSE <<x, RoundHeight(size[1], size[2], x)>>

\* Image.resize, Image.rotate, Image.filter, ImageOps and ImageEnhance
\* return a new image, whose format attribute is None.
NewImage(size, mode) == [size |-> size, format |-> "none", mode |-> mode]

\* Lines 108-119 (and 173-184, 208-219): format_name = img.format or 'JPEG',
\* the conversion to RGB for JPEG, and img.save; the image the bytes written
\* decode to.
Save(img) ==
    LET format_name == IF img.format = "none" THEN "JPEG" ELSE img.format
    IN  [size |-> img.size, format |-> format_name,
         mode |-> IF format_name = "JPEG" /\ img.mode \in {"RGBA", "LA", "P"} THEN "RGB"
                  ELSE img.mode]

\* resize_image (lines 85-123); ValueError when it raises.  Image.thumbnail
\* changes the image in place: format and mode stay.
resize_image(image_data, width, height, maintain_aspect) ==
    IF image_data.image = NoImage THEN ValueError
    ELSE IF maintain_aspect
    THEN Save([image_data.image EXCEPT
                  !.size = PreserveAspectRatio(image_data.image.size, width, height)])
    ELSE Save(NewImage(<<width, height>>, image_data.image.mode))

\* create_thumbnail (lines 125-136)
create_thumbnail(image_data, size) == resize_image(image_data, size, size, TRUE)

\* rotate_image (lines 192-224), for the angles PIL transposes: expand=True
\* swaps the sides on a quarter turn.
rotate_image(image_data, angle) ==
    IF image_data.image = NoImage THEN ValueError
    ELSE LET img == image_data.image
         IN  Save(NewImage(IF angle \in {90, 270} THEN <<img.size[2], img.size[1]>> ELSE img.size,
                           img.mode))

\* get_available_filters (lines 288-303)
Filters ==
    { <<"b","l","u","r">>, <<"s","h","a","r","p","e","n">>, <<"e","d","g","e">>,
      <<"e","m","b","o","s","s">>, <<"g","r","a","y","s","c","a","l","e">>,
      <<"s","e","p","i","a">>, <<"e","n","h","a","n","c","e">> }

\* apply_filter (lines 138-190)
apply_filter(image_data, filter_name) ==
    IF image_data.image = NoImage THEN ValueError
    ELSE IF ToLower(filter_name) \notin Filters THEN ValueError
    ELSE LET img == image_data.image
         IN  Save(NewImage(img.size,
                           IF ToLower(filter_name) = <<"g","r","a","y","s","c","a","l","e">> THEN "L"
                           ELSE IF ToLower(filter_name) = <<"s","e","p","i","a">> THEN "RGB"
                           ELSE img.mode))

(***************************************************************************)
(* SpecProc: one ImageProcessor method applied to one payload.             *)
(***************************************************************************)
NoProc ==
    [op |-> "input", image_data |-> [file_size |-> 0, image |-> NoImage], width |-> 0,
     height |-> 0, maintain_aspect |-> FALSE, angle |-> 0, filter_name |-> <<>>,
     result |-> ValueError]

Boxes == { 1, 2, 5, 200, 5000 }

InitProc ==
    /\ images = {}
    /\ s3 = {}
    /\ nextId = 0
    /\ now = 0
    /\ calls = EmptyBag
    /\ uploadedBy = {}
    /\ deleted = [t \in ImageIdTexts |-> 0]
    /\ last \in { [NoProc EXCEPT !.image_data = p] : p \in Payloads }

Applied(op) == [last EXCEPT !.op = op]

ValidateImage ==
    /\ last.op = "input"
    /\ last' = [Applied("validate_image") EXCEPT !.result = validate_image(last.image_data)]
    /\ UNCHANGED <<images, s3, nextId, now, calls, uploadedBy, deleted>>

ResizeImage(width, height, maintain_aspect) ==
    /\ last.op = "input"
    /\ last' = [Applied("resize_image") EXCEPT
                   !.width = width, !.height = height, !.maintain_aspect = maintain_aspect,
                   !.result = resize_image(last.image_data, width, height, maintain_aspect)]
    /\ UNCHANGED <<images, s3, nextId, now, calls, uploadedBy, deleted>>

CreateThumbnail(size) ==
    /\ last.op = "input"
    /\ last' = [Applied("create_thumbnail") EXCEPT
                   !.width = size, !.result = create_thumbnail(last.image_data, size)]
    /\ UNCHANGED <<images, s3, nextId, now, calls, uploadedBy, deleted>>

RotateImage(angle) ==
    /\ last.op = "input"
    /\ last' = [Applied("rotate_image") EXCEPT
                   !.angle = angle, !.result = rotate_image(last.image_data, angle)]
    /\ UNCHANGED <<images, s3, nextId, now, calls, uploadedBy, deleted>>

ApplyFilter(filter_name) ==
    /\ last.op = "input"
    /\ last' = [Applied("apply_filter") EXCEPT
                   !.filter_name = filter_name,
                   !.result = apply_filter(last.image_data, filter_name)]
    /\ UNCHANGED <<images, s3, nextId, now, calls, uploadedBy, deleted>>

NextProc ==
    \/ ValidateImage
    \/ \E width \in Boxes, height \in Boxes, maintain_aspect \in BOOLEAN :
            ResizeImage(width, height, maintain_aspect)
    \/ \E size \in Boxes : CreateThumbnail(size)
    \/ \E angle \in {0, 90, 180, 270} : RotateImage(angle)
    \/ \E filter_name \in Filters \cup { <<"B","l","u","r">>, <<"f","l","i","p">> } :
            ApplyFilter(filter_name)

SpecProc == InitProc /\ [][NextProc]_vars

(***************************************************************************)
(* SpecPool: the sessions of the connection pool (image_service.py:23-41). *)
(* Every operation runs its statements inside                              *)
(* "async with self.db_pool.acquire() as conn" (lines 129, 188, 241, 275,  *)
(* 309): it asks the pool for a session, waits while the pool has none to  *)
(* give, and gives the session back when the block is left, by return or   *)
(* by exception.  The pool is opened at startup (app.py:103).              *)
(***************************************************************************)
max_size == 5

\* The number of calls that hold a session.
Held(bag) ==
    LET S == { c \in BagToSet(bag) : c.pc = "session" }
    IN  BagCardinality([c \in S |-> CopiesIn(c, bag)])

\* The operation reaches its async with statement.
PoolEnter(op) ==
    /\ BagCardinality(calls) < MaxCallers
    /\ calls' = Started([NoCall EXCEPT !.op = op, !.pc = "acquire"])
    /\ UNCHANGED <<images, s3, nextId, now, last, uploadedBy, deleted>>

\* Pool.acquire returns a session: one is free, or fewer than max_size are
\* open.
PoolAcquire(call) ==
    /\ call \in BagToSet(calls)
    /\ call.pc = "acquire"
    /\ Held(calls) < max_size
    /\ calls' = Moved(call, [call EXCEPT !.pc = "session"])
    /\ UNCHANGED <<images, s3, nextId, now, last, uploadedBy, deleted>>

PoolLeft(call, ok) ==
    [NoLast EXCEPT !.op = call.op, !.status = IF ok THEN "ok" ELSE "error", !.dberr = ~ok]

\* (a block that keeps its session when a statement raises)
PoolExitKeepingOnError(call, ok) ==
    /\ call \in BagToSet(calls)
    /\ call.pc = "session"
    /\ calls' = IF ok THEN Finished(call) ELSE Moved(call, [call EXCEPT !.op = "failed"])
    /\ last' = PoolLeft(call, ok)
    /\ UNCHANGED <<images, s3, nextId, now, uploadedBy, deleted>>

\* The block is left: its statements returned (ok) or one of them raised.
PoolExit(call, ok) ==
    /\ call \in BagToSet(calls)
    /\ call.pc = "session"
    /\ calls' = Finished(call)
    /\ last' = PoolLeft(call, ok)
    /\ UNCHANGED <<images, s3, nextId, now, uploadedBy, deleted>>

NextPool ==
    \/ \E op \in {"upload", "list", "get", "view", "delete"} : PoolEnter(op)
    \/ \E call \in BagToSet(calls) : PoolAcquire(call)
    \/ \E call \in BagToSet(calls), ok \in BOOLEAN : PoolExit(call, ok)

SpecPool == Init /\ [][NextPool]_vars

(***************************************************************************)
(* SpecSkew: listings that overlap with uploads and deletes of the same    *)
(* owner; no failing dependency.                                           *)
(***************************************************************************)
NextSkew ==
    \/ UploadPut(PngFile, UuidStr(AliceUuid), TRUE)
    \/ \E call \in BagToSet(calls) : UploadInsert(call, TRUE, 1)
    \/ \E image_id \in ImageIdTexts : DeleteLookup(image_id, UuidStr(AliceUuid), TRUE)
    \/ \E call \in BagToSet(calls) : DeleteObject(call, TRUE)
    \/ \E call \in BagToSet(calls) : DeleteRow(call, TRUE)
    \/ \E page \in Pages : GetUserImagesCount(UuidStr(AliceUuid), page, 1, <<>>)
    \/ \E call \in BagToSet(calls) : GetUserImagesFetch(call)

SpecSkew == Init /\ [][NextSkew]_vars

(***************************************************************************)
(* SpecOwners: uploads and listings under raw user ids of every kind (the  *)
(* sentinel, the reserved identifier, a canonical identifier, the same in  *)
(* braces, another string), one call at a time.                            *)
(***************************************************************************)
OwnerIds ==
    { DemoUser, UuidStr(ReservedUuid), UuidStr(AliceUuid),
      <<"{">> \o UuidStr(AliceUuid) \o <<"}">>, MockUser }

NextOwners ==
    \/ \E user_id \in OwnerIds : ListUpload(PngFile, user_id)
    \/ \E user_id \in OwnerIds : GetUserImages(user_id, 1, MaxRows, <<>>, TRUE)

SpecOwners == InitList /\ [][NextOwners]_vars

(***************************************************************************)
(* Properties.                                                             *)
(***************************************************************************)
IsUuid(u) == DOMAIN u = 1..UuidDigits /\ \A i \in 1..UuidDigits : u[i] \in 0..15

\* The text is the canonical form of the UUID it denotes.
IsCanonical(text) == UuidParse(text) # ValueError /\ UuidStr(UuidParse(text)) = text

RowOfId(image_id) == { r \in images : UuidStr(r.id) = image_id }

\* Some order of get_user_images(user_id) (no filter) holds the image.
Listed(image_id, user_id) ==
    \E r \in Matching(ListKeyOf[user_id], <<>>) : UuidStr(r.id) = image_id

\* C1: after upload_image returned a record for a raw user id, get_image_by_id
\* with the returned id and the same raw user id returns a record with the
\* same id, size and content_type, the size being the length of the payload.
C1_UploadThenGet ==
    (last.op = "upload" /\ last.status = "ok") =>
        LET got == get_image_by_id(last.view.id, last.user_id, TRUE)
        IN  /\ got # None
            /\ got.id = last.view.id
            /\ got.size = last.view.size
            /\ got.content_type = last.view.content_type
            /\ got.size = ByteLen(last.body)

\* C2: for every stored row and every raw user id whose owner key is not the
\* row's, get_image_by_id returns None, as it does for an id that no row has.
C2_OtherOwnerNotFound ==
    /\ \A r \in images, u \in RawUserIds :
          UploadKeyOf[u] # r.user_id => get_image_by_id(UuidStr(r.id), u, TRUE) = None
    /\ \A t \in ImageIdTexts, u \in RawUserIds :
          RowOfId(t) = {} => get_image_by_id(t, u, TRUE) = None
    /\ (last.op = "get" /\ \A r \in RowOfId(last.image_id) : r.user_id # UploadKeyOf[last.user_id])
          => (last.status = "none" /\ last.view = None)

\* C2 happens: a registered user asked for another owner's stored image.
C2_Witness ==
    /\ last.op = "get"
    /\ last.status = "none"
    /\ GetKeyOf[last.user_id] # ValueError
    /\ \E r \in RowOfId(last.image_id) : r.user_id # UploadKeyOf[last.user_id]

\* C3: the owner key a get, delete or list call used for a raw user id is
\* the owner key upload_image stores for that raw user id.
C3_SameOwnerKey ==
    last.op \in {"get", "delete", "list"} => last.owner_key = UploadKeyOf[last.user_id]

\* C4 as claimed: the demo user maps to the reserved id, a canonical id to
\* itself, every other string to the hash-derived id; total and idempotent.
C4_AsClaimed ==
    last.op \in {"upload", "list"} =>
        LET u == last.user_id
            k == last.owner_key
        IN  /\ IsUuid(k)
            /\ u = DemoUser => k = ReservedUuid
            /\ IsCanonical(u) => UuidStr(k) = u
            /\ (u # DemoUser /\ ~IsCanonical(u)) => k = Uuid5(u)
            /\ UploadUserUuid(UuidStr(k)) = k

\* C4 amended: the demo user maps to the reserved id; every text uuid.UUID
\* accepts maps to the UUID it denotes (a canonical text to itself); every
\* other string maps to the hash-derived id.  The key is a UUID for every
\* raw id (total), the same in upload and list and in every call
\* (deterministic), and resolving the text of a key gives the key back.
C4_OwnerKeyMapping ==
    last.op \in {"upload", "list"} =>
        LET u == last.user_id
            k == last.owner_key
        IN  /\ IsUuid(k)
            /\ u = DemoUser => k = ReservedUuid
            /\ (u # DemoUser /\ UuidParse(u) # ValueError) => k = UuidParse(u)
            /\ IsCanonical(u) => UuidStr(k) = u
            /\ (u # DemoUser /\ UuidParse(u) = ValueError) => k = Uuid5(u)
            /\ UploadUserUuid(UuidStr(k)) = k
            /\ ListUserUuid(UuidStr(k)) = k
            /\ \A r \in images : <<UuidStr(r.id), u>> \in uploadedBy => r.user_id = k

\* C4 happens: a call resolved a UUID text that is not canonical.
C4_Witness ==
    /\ last.op \in {"upload", "list"}
    /\ last.status = "ok"
    /\ ~IsCanonical(last.user_id)
    /\ last.owner_key = AliceUuid
    /\ \E r \in images : r.user_id = AliceUuid

\* C5: delete_image of an image by the raw user id that uploaded it returns
\* True, and then neither get_image_by_id nor get_user_images returns it.
C5_DeleteByUploader ==
    (last.op = "delete" /\ last.owned0) =>
        /\ last.status = "true"
        /\ get_image_by_id(last.image_id, last.user_id, TRUE) = None
        /\ ~Listed(last.image_id, last.user_id)

\* No row has the image id under the owner key of the raw user id: the image
\* is absent, already deleted, or another owner's.
NotOwnedNow(image_id, user_id) ==
    \A r \in RowOfId(image_id) : r.user_id # UploadKeyOf[user_id]

\* C6: a delete_image call for an id that is absent, already deleted or owned
\* by another owner returns False at once and changes neither the bucket nor
\* the table (nor does it stay in progress).
C6_NotFoundDeleteChangesNothing ==
    [][\A image_id \in ImageIdTexts, user_id \in StoreUsers, db_ok \in BOOLEAN :
          (DeleteLookup(image_id, user_id, db_ok) /\ NotOwnedNow(image_id, user_id)) =>
              /\ last'.op = "delete"
              /\ last'.image_id = image_id
              /\ last'.user_id = user_id
              /\ last'.status = "false"
              /\ images' = images
              /\ s3' = s3
              /\ calls' = calls]_vars

\* C6 happens: a second delete of an image, after the first one returned
\* True, returned False with the index answering.
C6_Witness ==
    /\ last.op = "delete"
    /\ last.status = "false"
    /\ ~last.passed
    /\ ~last.dberr
    /\ deleted[last.image_id] = 1

\* C7: when no upload or delete is in progress, the object of every row is
\* in the bucket.
C7_NoDanglingRow ==
    calls = EmptyBag => \A r \in images : HasObject(s3, r.s3_key)

\* C8: when the index insert of an upload fails, the call raises, no row has
\* the upload's id, and the object it put is still in the bucket with the
\* uploaded bytes.
C8_FailedInsertLeavesOrphan ==
    (last.op = "upload" /\ last.dberr) =>
        /\ last.status = "error"
        /\ RowOfId(last.image_id) = {}
        /\ \E o \in s3 : o.key = last.key /\ o.body = last.body

\* C8 happens: an upload put its object and its insert failed.
C8_Witness ==
    /\ last.op = "upload"
    /\ last.dberr
    /\ last.status = "error"
    /\ HasObject(s3, last.key)

\* C9: a delete_image call whose delete_object raised goes on to the index
\* delete; if the row is there and the index answers, the row is deleted, the
\* call returns True, and get and list no longer return the image.
C9_ObjectStoreFailureTolerated ==
    /\ \A c \in BagToSet(calls) : (c.op = "delete" /\ c.s3err) => c.pc = "row"
    /\ (last.op = "delete" /\ last.s3err /\ last.row1 /\ ~last.dberr) =>
          /\ last.status = "true"
          /\ RowOfId(last.image_id) = {}
          /\ get_image_by_id(last.image_id, last.user_id, TRUE) = None
          /\ ~Listed(last.image_id, last.user_id)

\* C9 happens: a delete returned True although delete_object had raised, and
\* the object is still in the bucket.
C9_Witness ==
    /\ last.op = "delete"
    /\ last.s3err
    /\ last.status = "true"
    /\ HasObject(s3, last.key)

DeletesInFlight(image_id) == { c \in BagToSet(calls) : c.op = "delete" /\ c.image_id = image_id }

\* C10 as claimed: a delete returns True only if its own DELETE removed the
\* row, and once every delete of an image that passed the lookup has
\* returned, exactly one of them has returned True.
C10_AsClaimed ==
    /\ (last.op = "delete" /\ last.status = "true") => (last.row1 /\ ~last.dberr)
    /\ (last.op = "delete" /\ last.passed /\ DeletesInFlight(last.image_id) = {})
          => deleted[last.image_id] = 1

\* C10 amended: a delete returns True only if its own DELETE removed the
\* row; at most one delete of an image ever returns True; a delete that
\* passed the lookup and whose DELETE did not raise returns False only when
\* another delete of the image has returned True.
C10_AtMostOneSuccess ==
    /\ (last.op = "delete" /\ last.status = "true") =>
          (last.row1 /\ ~last.dberr /\ RowOfId(last.image_id) = {})
    /\ \A t \in ImageIdTexts : deleted[t] <= 1
    /\ (last.op = "delete" /\ last.passed /\ ~last.dberr /\ last.status = "false")
          => deleted[last.image_id] = 1
    /\ (last.op = "delete" /\ last.passed /\ ~last.dberr) => RowOfId(last.image_id) = {}

\* C10 happens: of two deletes that both passed the lookup, the second to
\* run its DELETE returned False after the first returned True.
C10_Witness ==
    /\ last.op = "delete"
    /\ last.passed
    /\ ~last.dberr
    /\ ~last.row1
    /\ last.status = "false"
    /\ deleted[last.image_id] = 1

\* C11: process_image on an existing image of the caller returns a new
\* record with a fresh id, the new image is stored, and the source image is
\* still stored unchanged.
C11_ProcessMakesCopy ==
    (last.op = "process" /\ last.owned0 /\ last.status # "refused") =>
        /\ last.status = "ok"
        /\ last.view.id # last.image_id
        /\ RowOfId(last.view.id) # {}
        /\ \E r \in RowOfId(last.image_id) : HasObject(s3, r.s3_key)

\* The operation names of the transformation pipeline.
KnownOperations == { Resize, Rotate, <<"t","h","u","m","b","n","a","i","l">>, <<"f","i","l","t","e","r">> }

\* C12: a process call (route or method) whose operations hold an unknown
\* name, at any position, ends in an error and leaves the table and the
\* bucket as they were.
C12_UnknownOperationStoresNothing ==
    [][(calls = EmptyBag /\ calls' = EmptyBag /\ last'.op = "process"
            /\ last'.status # "refused"
            /\ \E i \in 1..Len(last'.operations) : last'.operations[i] \notin KnownOperations) =>
          (last'.status = "error" /\ images' = images /\ s3' = s3)]_vars

\* C12 happens: the owner of a stored image called process_image with an
\* unknown name after a known one, and the call raised.
C12_Witness ==
    /\ last.op = "process"
    /\ last.owned0
    /\ last.operations = <<Resize, Unknown>>
    /\ last.status = "error"

\* C13: a listing of page p with page size s, for an owner with T matching
\* assets, returns exactly min(s, max(0, T - (p-1)*s)) items, and its
\* envelope says currentPage = p, totalPages = ceil(T/s), totalImages = T,
\* hasNextPage = (p*s < T) and hasPreviousPage = (p > 1).
C13_PageArithmetic ==
    (last.op = "list" /\ last.status = "ok") =>
        LET T == Cardinality({ r \in images :
                     /\ r.user_id = last.owner_key
                     /\ (last.format_filter # <<>> => ContainsCI(r.content_type, last.format_filter)) })
            p == last.pagination.currentPage
            ps == last.limit
        IN  /\ Len(last.items) = Min(ps, Max(0, T - (p - 1) * ps))
            /\ last.pagination.totalPages = (IF T % ps = 0 THEN T \div ps ELSE (T \div ps) + 1)
            /\ last.pagination.totalImages = T
            /\ last.pagination.hasNextPage = (p * ps < T)
            /\ last.pagination.hasPreviousPage = (p > 1)

\* Two assets, page size 1: page 2 is the last of two pages and holds one item.
C13_Witness ==
    /\ last.op = "list" /\ last.status = "ok"
    /\ last.limit = 1
    /\ last.pagination = [currentPage |-> 2, totalPages |-> 2, totalImages |-> 2,
                          hasNextPage |-> FALSE, hasPreviousPage |-> TRUE]
    /\ Len(last.items) = 1

\* C14: a listing holds only assets stored under the owner key the caller's
\* id resolves to, in descending order of created_at; on page 1 of an
\* unfiltered listing the first item is the asset uploaded last among the
\* owner's surviving assets.
UploadNo(id) == CHOOSE n \in 1..(MaxImages + MaxRows) : UuidStr(Uuid4(n)) = id

Surviving(user_id) ==
    { r \in images : \E up \in uploadedBy :
          /\ up[1] = UuidStr(r.id)
          /\ UploadKeyOf[up[2]] = ListKeyOf[user_id] }

C14_OwnNewestFirst ==
    (last.op = "list" /\ last.status = "ok") =>
        /\ \A i \in 1..Len(last.items) :
              \E r \in Surviving(last.user_id) : UuidStr(r.id) = last.items[i].id
        /\ \A i, j \in 1..Len(last.items) :
              i < j => last.items[i].created_at >= last.items[j].created_at
        /\ (last.pagination.currentPage = 1 /\ last.format_filter = <<>>
                /\ Surviving(last.user_id) # {}) =>
              /\ Len(last.items) >= 1
              /\ \A r \in Surviving(last.user_id) :
                    UploadNo(UuidStr(r.id)) <= UploadNo(last.items[1].id)

\* Both uploads belong to the caller and the second one leads the page.
C14_Witness ==
    /\ last.op = "list" /\ last.status = "ok"
    /\ last.pagination.currentPage = 1
    /\ Len(last.items) = 2
    /\ UploadNo(last.items[1].id) = 2
    /\ UploadNo(last.items[2].id) = 1

\* C15: no request without a verified identity changes the bucket or the
\* table: every object put and every row inserted was uploaded for an
\* identity the auth service vouched for.
VerifiedIds ==
    { VerifiedUser(SplitSecond(h)).id : h \in { h \in Headers : Verified(h, "up") } }

C15_OnlyVerifiedCallersWrite ==
    \A up \in uploadedBy : up[2] \in VerifiedIds

\* C16: every row the upload route inserts has a content type that begins
\* with "image/" and a size of at most 10 MiB, and a request with more than
\* five files is refused with nothing put or inserted.
C16_UploadRouteValidates ==
    [][(calls = EmptyBag /\ calls' = EmptyBag /\ last'.op = "upload_images") =>
          /\ \A r \in images' \ images :
                /\ StartsWith(r.content_type, ImagePrefix)
                /\ r.size <= MaxUploadBytes
          /\ last'.nfiles > MaxUploadFiles =>
                (last'.status = "refused" /\ images' = images /\ s3' = s3)]_vars

\* A file of exactly 10 MiB is stored, and a request of six files was refused.
C16_Witness ==
    /\ \E r \in images : r.size = MaxUploadBytes /\ StartsWith(r.content_type, ImagePrefix)
    /\ last.op = "upload_images"
    /\ last.nfiles = MaxUploadFiles + 1
    /\ last.http = 400

\* C17: when the table raises during a get_image_by_id or a delete_image of
\* an image the caller owns, the caller is told of an internal failure: the
\* response is not the 404 of an image that is absent or not owned.
C17_IndexFailureTold ==
    (last.op \in {"get", "delete"} /\ last.owned0 /\ last.dberr) => HttpStatus(last) # 404

\* C18: validate_image rejects every payload of more than 10 MiB with a
\* reason that names the file size and every payload with a side above 4096
\* with a reason that names the dimensions, payloads that do not decode or
\* that break both limits included; 10 MiB and 4096 px exactly are accepted.
C18_ValidateReasons ==
    last.op = "validate_image" =>
        LET image_data == last.image_data
            tooLarge == image_data.file_size > MaxSize
            tooWide == \E i \in 1..2 : image_data.image.size[i] > MaxDimension
        IN  /\ tooLarge => (~last.result.valid /\ last.result.error = "File size too large")
            /\ tooWide =>
                  (~last.result.valid /\ last.result.error = "Image dimensions too large")
            /\ (image_data.image # NoImage /\ ~tooLarge /\ ~tooWide) => last.result.valid

\* C19: resize_image of a W x H image to the box (w, h): keeping the aspect,
\* the output is at most min(w, W) wide and min(h, H) high and its sides are
\* proportional to W and H to within one pixel; otherwise it is exactly
\* w x h.  create_thumbnail(bytes, n) is resize_image(bytes, n, n, true).
C19_ResizeGeometry ==
    /\ (last.op = "resize_image" /\ last.image_data.image # NoImage) =>
          LET W == last.image_data.image.size[1]
              H == last.image_data.image.size[2]
              out == last.result.size
          IN  IF last.maintain_aspect
              THEN /\ out[1] >= 1 /\ out[1] <= Min(last.width, W)
                   /\ out[2] >= 1 /\ out[2] <= Min(last.height, H)
                   /\ Abs(out[1] * H - out[2] * W) < Max(W, H)
              ELSE out = <<last.width, last.height>>
    /\ last.op = "create_thumbnail" =>
          last.result = resize_image(last.image_data, last.width, last.width, TRUE)

\* A 7 x 3 image in the box 5 x 5 becomes 5 x 2.
C19_Witness ==
    /\ last.op = "resize_image"
    /\ last.maintain_aspect
    /\ last.image_data.image.size = <<7, 3>>
    /\ last.width = 5 /\ last.height = 5
    /\ last.result.size = <<5, 2>>

\* C20: the output of resize_image (either mode), rotate_image and
\* apply_filter (every filter) is encoded in the format of the input.
C20_FormatKept ==
    (last.op \in {"resize_image", "rotate_image", "apply_filter"} /\ last.result # ValueError) =>
        last.result.format = last.image_data.image.format

\* C21: within one upload_image call the object is put before the row is
\* inserted; when the put fails the call reports failure and no row is ever
\* inserted for it; the put and the insert are each attempted once at most.
InsertsInFlight(bag) == { c \in BagToSet(bag) : c.op = "upload" /\ c.pc = "insert" }

C21_PutThenInsertOnce ==
    [][/\ \A r \in images' \ images :
             /\ HasObject(s3, r.s3_key)
             /\ \E c \in InsertsInFlight(calls) :
                   c.image_id = UuidStr(r.id) /\ c \notin BagToSet(calls')
       /\ \A c \in InsertsInFlight(calls') \ InsertsInFlight(calls) :
             /\ nextId' = nextId + 1
             /\ ~HasObject(s3, c.key)
             /\ HasObject(s3', c.key)
       /\ (nextId' = nextId + 1 /\ s3' = s3) =>
             /\ last'.op = "upload" /\ last'.status = "error"
             /\ images' = images
             /\ calls' = calls
       /\ (last' # last /\ last'.op = "upload" /\ last'.dberr) =>
             /\ InsertsInFlight(calls') # InsertsInFlight(calls)
             /\ InsertsInFlight(calls') \subseteq InsertsInFlight(calls)
       /\ \A o \in s3' \ s3 : nextId' = nextId + 1]_vars

\* A put has failed: the call reported the failure and there is no row of
\* its id and no insert of it in flight.
C21_Witness ==
    /\ last.op = "upload" /\ last.s3err /\ last.status = "error"
    /\ ~\E r \in images : UuidStr(r.id) = last.image_id
    /\ ~\E c \in InsertsInFlight(calls) : c.image_id = last.image_id

\* C22: the rows have pairwise distinct ids and pairwise distinct object
\* keys, the object key of a row is the one derived from its owner key and
\* its id, and no operation changes a row that stays: rows are only inserted
\* and deleted.
RowsWellFormed(rows) ==
    /\ \A r1, r2 \in rows : (r1.id = r2.id \/ r1.s3_key = r2.s3_key) => r1 = r2
    /\ \A r \in rows :
          /\ r.filename = StoredName(UuidStr(r.id), r.original_filename)
          /\ r.s3_key = S3Key(r.user_id, r.filename)

C22_RowsOnlyInsertedAndDeleted ==
    [][/\ (images' # images => RowsWellFormed(images'))
       /\ \A r \in images : (\E r2 \in images' : r2.id = r.id) => r \in images'
       /\ Cardinality(images' \ images) + Cardinality(images \ images') <= 1]_vars

\* Two rows of two owners are there, and a get, a listing or a process
\* call has just returned.
C22_Witness ==
    /\ Cardinality(images) = 2
    /\ \E r1, r2 \in images : r1.user_id # r2.user_id
    /\ last.op \in {"get", "list", "process"}

\* C23: at most five sessions are held at any time; an operation that needs
\* a session while five are held stays waiting until one is given back; and
\* the session of an operation is given back when the operation ends,
\* whether it returned or raised.
Waiting(bag) == { c \in BagToSet(bag) : c.pc = "acquire" }

C23_PoolBound ==
    [][/\ Held(calls') <= 5
       /\ Held(calls') > Held(calls) => Held(calls) < 5
       /\ (Held(calls) = 5 /\ Held(calls') = 5) =>
             \A c \in Waiting(calls) : CopiesIn(c, calls') >= CopiesIn(c, calls)
       /\ last' # last =>
             /\ Held(calls') = Held(calls) - 1
             /\ BagCardinality(calls') = BagCardinality(calls) - 1]_vars

\* Five sessions are held, a sixth operation waits, and an operation has
\* ended by raising.
C23_Witness ==
    /\ Held(calls) = 5
    /\ Waiting(calls) # {}
    /\ last.status = "error"

\* C24: the envelope of a listing agrees with one snapshot of the table also
\* when uploads and deletes of the owner overlap with it: totalImages is the
\* number of matching rows when the items were read, so a page never holds
\* more than totalImages - (page-1)*limit items.
C24_EnvelopeOfOneSnapshot ==
    (last.op = "list" /\ last.status = "ok") =>
        Len(last.items) <=
            Max(0, last.pagination.totalImages - (last.pagination.currentPage - 1) * last.limit)

\* C25: the files of one upload request are handled in the order of the
\* request and the request stops at the first file that is refused or
\* fails: the files before it stay stored although the response is an
\* error, and no file after it is stored.
C25_StopsAtFirstFailure ==
    [][(calls = EmptyBag /\ calls' = EmptyBag /\ last'.op = "upload_images"
            /\ last'.status # "refused") =>
          LET files == last'.files
              stored == last'.items
          IN  /\ Len(stored) <= Len(files)
              /\ Cardinality(images' \ images) = Len(stored)
              /\ images \subseteq images'
              /\ \A i \in 1..Len(stored) :
                    /\ UploadNo(stored[i].id) = nextId + i
                    /\ \E r \in images' \ images :
                          /\ UuidStr(r.id) = stored[i].id
                          /\ r.content_type = files[i].content_type
                          /\ r.size = ByteLen(files[i].content)
                          /\ HasObject(s3', r.s3_key)
              /\ (last'.http = 200) = (Len(stored) = Len(files))
              /\ last'.http \in {200, 400, 413, 500}]_vars

\* The first file of two was stored and the second refused: the response
\* is 400 and the row of the first file is there.
C25_Witness ==
    /\ last.op = "upload_images"
    /\ last.files = <<ExactFile, TextFile>>
    /\ last.http = 400
    /\ Len(last.items) = 1
    /\ RowOfId(last.items[1].id) # {}

\* C26: owners are isolated by their raw user ids: a listing for the raw id
\* b never holds an asset that was uploaded under another raw id a.
C26_RawIdsIsolated ==
    (last.op = "list" /\ last.status = "ok") =>
        \A i \in 1..Len(last.items) : \A up \in uploadedBy :
            up[1] = last.items[i].id => up[2] = last.user_id

====
